---- MODULE Spec2Model ----
(***************************************************************************)
(* LithoStream: the lithophane pipeline of src/services/stl_service.py.    *)
(*                                                                         *)
(*   image_to_stl = jpg_to_stl (height field, frame, backing, x/y grids)   *)
(*                  ; create_solid_lithophane (vertices, faces, save)      *)
(*                                                                         *)
(* Reals are exact rationals <<n, d>> in lowest terms with d > 0; the      *)
(* floating point NaN that numpy produces for 0/0 is the pair <<0, 0>>.    *)
(* The source computes in IEEE doubles, which round after every operation. *)
(* The samples and thicknesses the model draws are dyadic rationals with   *)
(* short numerators, on which every sum and product of the height formula  *)
(* is itself a double: there the exact value is the value the source       *)
(* computes.  On other thicknesses the source can differ from the exact    *)
(* value by a rounding error (0.3 and 0.9 give 0.9000000000000001 for a    *)
(* black sample); no property below is asserted of such inputs.            *)
(* Arrays are sequences of rows; the source indexes from 0, the model      *)
(* from 1, and face indices are kept 0-based exactly as the source emits   *)
(* them.                                                                   *)
(***************************************************************************)
EXTENDS Integers, Sequences, FiniteSets

(* ------------------------------ bounds -------------------------------- *)

\* an input image has at most MaxPixels samples (rows * cols <= MaxPixels)
MaxPixels == 4

\* a grid handed directly to create_solid_lithophane has 2..MaxSide rows
\* and 2..MaxSide columns
MaxSide == 5

(* --------------------------- real arithmetic --------------------------- *)

Abs(n) == IF n < 0 THEN -n ELSE n

RECURSIVE GCD(_, _)
GCD(a, b) == IF b = 0 THEN a ELSE GCD(b, a % b)

NaN == <<0, 0>>

IsNaN(a) == a[2] = 0

Rat(n, d) ==
    IF d = 0 THEN NaN
    ELSE LET g == GCD(Abs(n), Abs(d))
             s == IF d < 0 THEN -1 ELSE 1
         IN  <<(s * n) \div g, (s * d) \div g>>

Zero == <<0, 1>>
One == <<1, 1>>

\* float(n) of a Python int
ToReal(n) == <<n, 1>>

RAdd(a, b) ==
    IF IsNaN(a) \/ IsNaN(b) THEN NaN
    ELSE Rat(a[1] * b[2] + b[1] * a[2], a[2] * b[2])

RSub(a, b) ==
    IF IsNaN(a) \/ IsNaN(b) THEN NaN
    ELSE Rat(a[1] * b[2] - b[1] * a[2], a[2] * b[2])

RMul(a, b) ==
    IF IsNaN(a) \/ IsNaN(b) THEN NaN
    ELSE Rat(a[1] * b[1], a[2] * b[2])

\* IEEE division as numpy performs it on the values the pipeline divides:
\* 0/0 is NaN (numpy warns and carries on).  The dividend is a sample and
\* the divisor the maximum of the samples, so with samples >= 0 a zero
\* divisor only ever meets a zero dividend.
RDiv(a, b) ==
    IF IsNaN(a) \/ IsNaN(b) THEN NaN
    ELSE IF b[1] = 0 THEN NaN
    ELSE Rat(a[1] * b[2], a[2] * b[1])

\* comparisons; any comparison with NaN is false, as in IEEE 754
RLt(a, b) == ~IsNaN(a) /\ ~IsNaN(b) /\ a[1] * b[2] < b[1] * a[2]
RLe(a, b) == ~IsNaN(a) /\ ~IsNaN(b) /\ a[1] * b[2] <= b[1] * a[2]

\* int(x): truncation toward zero
Trunc(a) == IF a[1] >= 0 THEN a[1] \div a[2] ELSE -((-a[1]) \div a[2])

(* ------------------------------- arrays -------------------------------- *)

NRows(g) == Len(g)
NCols(g) == IF Len(g) = 0 THEN 0 ELSE Len(g[1])

\* the samples of a grid, as a set
Cells(g) == {g[r][c] : r \in 1..NRows(g), c \in 1..NCols(g)}

\* np.max: NaN as soon as one element is NaN
np_max(g) ==
    IF \E v \in Cells(g) : IsNaN(v) THEN NaN
    ELSE CHOOSE m \in Cells(g) : \A v \in Cells(g) : RLe(v, m)

\* np.flipud: reverse the order of the rows
flipud(g) == [r \in 1..NRows(g) |-> g[NRows(g) + 1 - r]]

\* np.fliplr: reverse the order of the columns
fliplr(g) == [r \in 1..NRows(g) |-> [c \in 1..NCols(g) |-> g[r][NCols(g) + 1 - c]]]

\* np.full(shape, v)
full(rows, cols, v) == [r \in 1..rows |-> [c \in 1..cols |-> v]]

\* np.linspace(start, stop, num): num samples, endpoints included
linspace(start, stop, num) ==
    [i \in 1..num |->
        IF num = 1 THEN start
        ELSE RAdd(start, RMul(ToReal(i - 1),
                              RDiv(RSub(stop, start), ToReal(num - 1))))]

(* ------------------------------ add_frame_to_z ------------------------- *)

\* frame_pxl = int(frame_mm * resolution)
frame_pxl(frame_mm, resolution) == Trunc(RMul(frame_mm, ToReal(resolution)))

\* z_framed[frame_pxl:-frame_pxl, frame_pxl:-frame_pxl] = z on the array
\* np.full(new_shape, frame_height): for k > 0 the slice is the central
\* rows x cols block.
SetCentre(z, k, frame_height) ==
    [r \in 1..(NRows(z) + 2 * k) |->
        [c \in 1..(NCols(z) + 2 * k) |->
            IF r > k /\ r <= k + NRows(z) /\ c > k /\ c <= k + NCols(z)
            THEN z[r - k][c - k]
            ELSE frame_height]]

\* add_frame_to_z(z, frame_mm, resolution, extra_height_mm).
\* Returns [err, z]: err = "none" and the framed grid, or the exception the
\* call raises.  With frame_pxl = 0 the slice [0:-0] is the empty slice
\* [0:0]: numpy can broadcast z into the (0, 0) target only when z is 1 x 1
\* (the assignment then stores nothing), and raises ValueError otherwise.
\* A negative frame_pxl (resolution < 0) never yields a target slice of
\* z's shape: ValueError as well.
add_frame_to_z(z, frame_mm, resolution, extra_height_mm) ==
    IF RLe(frame_mm, Zero) THEN [err |-> "none", z |-> z]
    ELSE LET k == frame_pxl(frame_mm, resolution)
             frame_height == RAdd(np_max(z), extra_height_mm)
         IN  IF k > 0
             THEN [err |-> "none", z |-> SetCentre(z, k, frame_height)]
             ELSE IF k = 0 /\ NRows(z) = 1 /\ NCols(z) = 1
             THEN [err |-> "none", z |-> full(1, 1, frame_height)]
             ELSE [err |-> "ValueError", z |-> <<>>]

(* -------------------------------- jpg_to_stl --------------------------- *)

\* image / np.max(image)
Normalize(g) ==
    LET m == np_max(g)
    IN  [r \in 1..NRows(g) |-> [c \in 1..NCols(g) |-> RDiv(g[r][c], m)]]

\* 1 - np.double(image)
Invert(g) == [r \in 1..NRows(g) |-> [c \in 1..NCols(g) |-> RSub(One, g[r][c])]]

\* z = image * depth_mm + offset_mm.  The product and the sum are exact on
\* the dyadic samples and thicknesses of the model, as they are in doubles;
\* nothing here bounds the result by max_thick.
Scale(g, depth_mm, offset_mm) ==
    [r \in 1..NRows(g) |->
        [c \in 1..NCols(g) |-> RAdd(RMul(g[r][c], depth_mm), offset_mm)]]

\* AddBackPlane with a border of height 1 in place of 0
AddBackPlaneRaised(z) == SetCentre(z, 1, One)

\* z_with_back = zeros(rows + 2, cols + 2); z_with_back[1:-1, 1:-1] = z
AddBackPlane(z) == SetCentre(z, 1, Zero)

\* np.meshgrid(x1, y1): x[r][c] = x1[c], y[r][c] = y1[r]
meshgrid_x(x1, y1) == [r \in 1..Len(y1) |-> [c \in 1..Len(x1) |-> x1[c]]]
meshgrid_y(x1, y1) == [r \in 1..Len(y1) |-> [c \in 1..Len(x1) |-> y1[r]]]

Raised(e) ==
    [err |-> e, z_scaled |-> <<>>, z_framed |-> <<>>,
     x |-> <<>>, y |-> <<>>, z |-> <<>>]

\* CheckArguments with min_thick > max_thick in place of >=
CheckArgumentsStrict(image, max_thick, min_thick, resolution) ==
    IF Len(image.shape) > 2 THEN "RuntimeError"
    ELSE IF resolution <= 0 THEN "ValueError"
    ELSE IF RLt(max_thick, min_thick) THEN "ValueError"
    ELSE "none"

\* the three argument checks at the head of jpg_to_stl: the exception
\* raised, or "none"
CheckArguments(image, max_thick, min_thick, resolution) ==
    IF Len(image.shape) > 2 THEN "RuntimeError"
    ELSE IF resolution <= 0 THEN "ValueError"
    ELSE IF RLe(max_thick, min_thick) THEN "ValueError"
    ELSE "none"

\* jpg_to_stl(image, max_thick, min_thick, frame_thick_mm, frame_height_mm,
\* resolution).  image is [shape, data]; data is read only when the shape
\* has two dimensions.  The result carries the returned x, y, z and the two
\* intermediate values of the local z (after scaling, after framing).
\* np.max of an array without elements raises ValueError.
jpg_to_stl(image, max_thick, min_thick, frame_thick_mm, frame_height_mm, resolution) ==
    IF CheckArguments(image, max_thick, min_thick, resolution) # "none"
    THEN Raised(CheckArguments(image, max_thick, min_thick, resolution))
    ELSE IF image.shape[1] = 0 \/ image.shape[2] = 0 THEN Raised("ValueError")
    ELSE
      LET flipped == flipud(image.data)
          depth_mm == RSub(max_thick, min_thick)
          offset_mm == min_thick
          z_scaled == Scale(Invert(Normalize(flipped)), depth_mm, offset_mm)
          framed == add_frame_to_z(z_scaled, frame_thick_mm, resolution,
                                   frame_height_mm)
      IN  IF framed.err # "none"
          THEN [Raised(framed.err) EXCEPT !.z_scaled = z_scaled]
          ELSE
            LET z == AddBackPlane(framed.z)
                x1 == linspace(One, Rat(NCols(z), resolution), NCols(z))
                y1 == linspace(One, Rat(NRows(z), resolution), NRows(z))
            IN  [err |-> "none", z_scaled |-> z_scaled, z_framed |-> framed.z,
                 x |-> fliplr(meshgrid_x(x1, y1)), y |-> meshgrid_y(x1, y1),
                 z |-> z]

(* ------------------------- create_solid_lithophane --------------------- *)

\* g.flatten(): the samples in row-major order
RECURSIVE flatten(_)
flatten(g) == IF g = <<>> THEN <<>> ELSE Head(g) \o flatten(Tail(g))

\* the front vertices (x, y, z) followed by the back vertices (x, y, 0)
Vertices(x, y, z) ==
    LET fx == flatten(x)
        fy == flatten(y)
        fz == flatten(z)
    IN  [i \in 1..Len(fz) |-> <<fx[i], fy[i], fz[i]>>]
        \o [i \in 1..Len(fz) |-> <<fx[i], fy[i], Zero>>]

\* QuadFaces with the back faces wound like the front faces
QuadFacesSameWinding(r, c, cols, offset) ==
    LET lt == r * cols + c
        rt == lt + 1
        lb == (r + 1) * cols + c
        rb == lb + 1
    IN  << <<lt, lb, rt>>,
           <<rt, lb, rb>>,
           <<lt + offset, lb + offset, rt + offset>>,
           <<rt + offset, lb + offset, rb + offset>> >>

\* the four faces of the quad whose top-left cell is (r, c): two on the
\* front surface, then two on the back plane
QuadFaces(r, c, cols, offset) ==
    LET lt == r * cols + c
        rt == lt + 1
        lb == (r + 1) * cols + c
        rb == lb + 1
    IN  << <<lt, lb, rt>>,
           <<rt, lb, rb>>,
           <<lt + offset, rt + offset, lb + offset>>,
           <<rt + offset, rb + offset, lb + offset>> >>

\* for r in range(rows - 1): for c in range(cols - 1): ...
RECURSIVE SurfaceLoop(_, _, _, _, _)
SurfaceLoop(r, c, rows, cols, offset) ==
    IF r >= rows - 1 THEN <<>>
    ELSE IF c >= cols - 1 THEN SurfaceLoop(r + 1, 0, rows, cols, offset)
    ELSE QuadFaces(r, c, cols, offset) \o SurfaceLoop(r, c + 1, rows, cols, offset)

\* SideFaces without the right wall
SideFacesLeftOnly(r, cols, offset) ==
    << <<r * cols, r * cols + offset, (r + 1) * cols>>,
       <<(r + 1) * cols, r * cols + offset, (r + 1) * cols + offset>> >>

\* the left and right wall faces between rows r and r + 1
SideFaces(r, cols, offset) ==
    << <<r * cols, r * cols + offset, (r + 1) * cols>>,
       <<(r + 1) * cols, r * cols + offset, (r + 1) * cols + offset>>,
       <<r * cols + cols - 1, (r + 1) * cols + cols - 1,
         r * cols + cols - 1 + offset>>,
       <<(r + 1) * cols + cols - 1, (r + 1) * cols + cols - 1 + offset,
         r * cols + cols - 1 + offset>> >>

\* for r in range(rows - 1): left side, right side
RECURSIVE SideLoop(_, _, _, _)
SideLoop(r, rows, cols, offset) ==
    IF r >= rows - 1 THEN <<>>
    ELSE SideFaces(r, cols, offset) \o SideLoop(r + 1, rows, cols, offset)

\* the upper and lower wall faces between columns c and c + 1
EndFaces(c, rows, cols, offset) ==
    LET v == (rows - 1) * cols + c
    IN  << <<c, c + 1, c + offset>>,
           <<c + 1, c + 1 + offset, c + offset>>,
           <<v, v + offset, v + 1>>,
           <<v + 1, v + offset, v + 1 + offset>> >>

\* for c in range(cols - 1): upper side, lower side
RECURSIVE EndLoop(_, _, _, _)
EndLoop(c, rows, cols, offset) ==
    IF c >= cols - 1 THEN <<>>
    ELSE EndFaces(c, rows, cols, offset) \o EndLoop(c + 1, rows, cols, offset)

\* the list faces when the loops are over
Faces(rows, cols) ==
    LET offset == rows * cols
    IN  SurfaceLoop(0, 0, rows, cols, offset)
        \o SideLoop(0, rows, cols, offset)
        \o EndLoop(0, rows, cols, offset)

\* create_solid_lithophane(x, y, z, file_path): the vertex buffer and the
\* face list from which the mesh written to file_path is filled
create_solid_lithophane(x, y, z) ==
    [vertices |-> Vertices(x, y, z), faces |-> Faces(NRows(z), NCols(z))]

(* ------------------------------ image_to_stl --------------------------- *)

VARIABLES
    image,            \* the array handed to image_to_stl: [shape, data]
    max_thick,        \* max_th
    min_thick,        \* min_th
    frame_thick_mm,
    frame_height_mm,
    resolution,
    pc,               \* "called", "heights", "returned" or "raised"
    err,              \* the exception image_to_stl re-raises, or "none"
    z_scaled,         \* jpg_to_stl's z after scaling (line 78)
    z_framed,         \* jpg_to_stl's z after add_frame_to_z (line 86)
    x, y, z,          \* the value jpg_to_stl returns
    vertices, faces,  \* create_solid_lithophane's vertex buffer and face list
    stl_saved         \* litho_mesh.save(file_path) has run

inputs == <<image, max_thick, min_thick, frame_thick_mm, frame_height_mm, resolution>>
heights == <<z_scaled, z_framed, x, y, z>>
solid == <<vertices, faces, stl_saved>>
vars == <<inputs, pc, err, heights, solid>>

\* the sample values of the input arrays
Intensities == {Zero, Rat(1, 2), One}

\* the two-dimensional arrays of at most MaxPixels samples, the empty ones
\* included
Shapes == {s \in (0..MaxPixels) \X (0..MaxPixels) : s[1] * s[2] <= MaxPixels}
Grayscale ==
    UNION {{[shape |-> s, data |-> d] :
               d \in [1..s[1] -> [1..s[2] -> Intensities]]} : s \in Shapes}

\* arrays with a third axis (colour channels); data holds one channel
Colour == {[shape |-> <<1, 1, 3>>, data |-> <<<<v>>>>] : v \in Intensities}

\* thicknesses: dyadic values, for which max_thick - min_thick and every
\* height v * depth + min_thick are computed without rounding by the source
MinThicks == {Rat(1, 2), Rat(3, 1)}
MaxThicks == {Rat(3, 1)}
FrameThicks == {Zero, Rat(1, 4), Rat(3, 8)}
FrameHeights == {Rat(-1, 1), Zero, Rat(1, 2)}
Resolutions == {0, 2, 4}

\* image_to_stl has been called and has drawn its output file name
Init ==
    /\ image \in Grayscale \cup Colour
    /\ max_thick \in MaxThicks
    /\ min_thick \in MinThicks
    /\ frame_thick_mm \in FrameThicks
    /\ frame_height_mm \in FrameHeights
    /\ resolution \in Resolutions
    /\ pc = "called"
    /\ err = "none"
    /\ z_scaled = <<>> /\ z_framed = <<>>
    /\ x = <<>> /\ y = <<>> /\ z = <<>>
    /\ vertices = <<>> /\ faces = <<>>
    /\ stl_saved = FALSE

\* x, y, z = jpg_to_stl(...) returns
JpgToStlReturns ==
    /\ pc = "called"
    /\ LET res == jpg_to_stl(image, max_thick, min_thick, frame_thick_mm,
                             frame_height_mm, resolution)
       IN  /\ res.err = "none"
           /\ z_scaled' = res.z_scaled
           /\ z_framed' = res.z_framed
           /\ x' = res.x
           /\ y' = res.y
           /\ z' = res.z
    /\ pc' = "heights"
    /\ UNCHANGED <<inputs, err, solid>>

\* jpg_to_stl raises; the except clause logs and re-raises
JpgToStlRaises ==
    /\ pc = "called"
    /\ LET res == jpg_to_stl(image, max_thick, min_thick, frame_thick_mm,
                             frame_height_mm, resolution)
       IN  /\ res.err # "none"
           /\ err' = res.err
           /\ z_scaled' = res.z_scaled
    /\ pc' = "raised"
    /\ UNCHANGED <<inputs, z_framed, x, y, z, solid>>

\* create_solid_lithophane(x, y, z, file_path) builds and saves the mesh,
\* and image_to_stl returns the path
CreateSolidLithophane ==
    /\ pc = "heights"
    /\ LET m == create_solid_lithophane(x, y, z)
       IN  /\ vertices' = m.vertices
           /\ faces' = m.faces
    /\ stl_saved' = TRUE
    /\ pc' = "returned"
    /\ UNCHANGED <<inputs, err, heights>>

Next ==
    \/ JpgToStlReturns
    \/ JpgToStlRaises
    \/ CreateSolidLithophane

Spec == Init /\ [][Next]_vars

(* create_solid_lithophane called on its own, with x, y, z of the caller:  *)
(* unit-spaced coordinates and a sloped plane of heights.  No image_to_stl *)
(* call is in progress; its arguments are held at fixed values.            *)

SolidGrids(rows, cols) ==
    {[r \in 1..rows |-> [c \in 1..cols |-> ToReal(a * r + b * c + d)]] :
        a \in 0..1, b \in 0..1, d \in 0..1}

InitSolid ==
    /\ image = [shape |-> <<>>, data |-> <<>>]
    /\ max_thick = Zero /\ min_thick = Zero
    /\ frame_thick_mm = Zero /\ frame_height_mm = Zero
    /\ resolution = 0
    /\ pc = "heights"
    /\ err = "none"
    /\ z_scaled = <<>> /\ z_framed = <<>>
    /\ \E rows \in 2..MaxSide : \E cols \in 2..MaxSide :
          /\ z \in SolidGrids(rows, cols)
          /\ x = [r \in 1..rows |-> [c \in 1..cols |-> ToReal(c - 1)]]
          /\ y = [r \in 1..rows |-> [c \in 1..cols |-> ToReal(r - 1)]]
    /\ vertices = <<>> /\ faces = <<>>
    /\ stl_saved = FALSE

NextSolid == CreateSolidLithophane

SpecSolid == InitSolid /\ [][NextSolid]_vars

(* ------------------------------ properties ----------------------------- *)

ImgRows == image.shape[1]
ImgCols == image.shape[2]

\* jpg_to_stl has returned
Computed == pc \in {"heights", "returned"}

\* the directed edges of the face at position i of the list
EdgesOf(f) == {<<f[1], f[2]>>, <<f[2], f[3]>>, <<f[3], f[1]>>}
DirectedEdges(fs) == UNION {EdgesOf(fs[i]) : i \in 1..Len(fs)}

\* C1: in the face list of create_solid_lithophane every undirected edge
\* {i, j} occurs in exactly two triangles, once as i->j and once as j->i.
\* No directed edge occurs twice (the 3 * Len(faces) edge occurrences are
\* pairwise distinct), every edge joins two distinct vertices, and the
\* reverse of every directed edge occurs too.
C1_Watertight ==
    pc = "returned" =>
        LET edges == DirectedEdges(faces)
        IN  /\ NRows(z) >= 2 /\ NCols(z) >= 2
            /\ Cardinality(edges) = 3 * Len(faces)
            /\ \A e \in edges :
                  /\ e[1] # e[2]
                  /\ <<e[2], e[1]>> \in edges

C1_Witness ==
    /\ pc = "returned"
    /\ NRows(z) = 2 /\ NCols(z) = 3
    /\ <<0, 1>> \in DirectedEdges(faces)
    /\ <<1, 0>> \in DirectedEdges(faces)

\* C2: create_solid_lithophane builds 2*rows*cols vertices and
\* 4*(rows-1)*(cols-1) + 4*(rows-1) + 4*(cols-1) triangles, and every
\* index of every triangle lies in 0 .. 2*rows*cols - 1.
C2_Counts ==
    pc = "returned" =>
        LET rows == NRows(z)
            cols == NCols(z)
        IN  /\ rows >= 2 /\ cols >= 2
            /\ Len(vertices) = 2 * rows * cols
            /\ Len(faces) = 4 * (rows - 1) * (cols - 1) + 4 * (rows - 1)
                            + 4 * (cols - 1)
            /\ \A i \in 1..Len(faces) : \A k \in 1..3 :
                  faces[i][k] \in 0..(2 * rows * cols - 1)

C2_Witness ==
    /\ pc = "returned"
    /\ NRows(z) = 2 /\ NCols(z) = 3
    /\ Len(vertices) = 12
    /\ Len(faces) = 20

\* the inputs jpg_to_stl rejects by its three argument checks
Rejected ==
    \/ Len(image.shape) > 2
    \/ resolution <= 0
    \/ RLe(max_thick, min_thick)

\* C4: when image_to_stl is called with an input that jpg_to_stl rejects
\* (min_thick >= max_thick, resolution <= 0, more than two dimensions) the
\* call raises, create_solid_lithophane is never entered, no mesh is built
\* and no file is written: the call is never past jpg_to_stl, nothing of
\* the mesh exists, and every step taken on such an input is the raise.
C4_RejectedBuildsNothing ==
    /\ [](Rejected =>
            /\ pc \in {"called", "raised"}
            /\ pc = "raised" => err \in {"ValueError", "RuntimeError"}
            /\ vertices = <<>> /\ faces = <<>>
            /\ stl_saved = FALSE)
    /\ [][Rejected => (pc' = "raised" /\ err' # "none" /\ stl_saved' = FALSE)]_vars

C4_Witness ==
    /\ pc = "raised"
    /\ err = "ValueError"
    /\ Len(image.shape) = 2 /\ resolution > 0
    /\ RLe(max_thick, min_thick)

(* the layout of the grids jpg_to_stl builds *)

\* a frame was asked for
FrameAsked == RLt(Zero, frame_thick_mm)

\* the number of cells add_frame_to_z put on each side of z_scaled
FramePx == (NRows(z_framed) - NRows(z_scaled)) \div 2

\* the cell (r, c) of z_framed is not a cell add_frame_to_z added: it lies
\* in the block of z_scaled's shape that starts FramePx cells in.  With
\* FramePx = 0 add_frame_to_z adds no cell, so every cell of z_framed is
\* such a cell, whatever value the call left in it.
FromImage(r, c) ==
    /\ r \in (FramePx + 1)..(FramePx + NRows(z_scaled))
    /\ c \in (FramePx + 1)..(FramePx + NCols(z_scaled))

\* the cell (r, c) of the returned z lies on the backing border
Backing(r, c) == r = 1 \/ r = NRows(z) \/ c = 1 \/ c = NCols(z)

\* (1 - v) * (max_thick - min_thick) + min_thick
HeightOf(v) == RAdd(RMul(RSub(One, v), RSub(max_thick, min_thick)), min_thick)

\* C3 (as claimed): each image cell of intensity v is mapped by jpg_to_stl
\* to the height (1 - v) * (max_thick - min_thick) + min_thick at the
\* row-flipped position, uniform grids included.
C3_HeightOfIntensity ==
    Computed =>
        \A r \in 1..ImgRows : \A c \in 1..ImgCols :
            z[1 + FramePx + (ImgRows + 1 - r)][1 + FramePx + c]
                = HeightOf(image.data[r][c])

\* C5 (as claimed): a grid with fewer than 2 rows or fewer than 2 columns
\* is rejected by jpg_to_stl; no mesh is produced for it.
C5_SmallGridRejected ==
    (Len(image.shape) = 2 /\ (ImgRows < 2 \/ ImgCols < 2)) =>
        /\ pc \in {"called", "raised"}
        /\ faces = <<>>
        /\ stl_saved = FALSE

\* C6 (as claimed): in the grid jpg_to_stl returns, every cell that is not
\* a frame cell has a value in [min_thick, max_thick].
C6_NonFrameInRange ==
    Computed =>
        \A r \in 1..NRows(z) : \A c \in 1..NCols(z) :
            (Backing(r, c) \/ FromImage(r - 1, c - 1)) =>
                (RLe(min_thick, z[r][c]) /\ RLe(z[r][c], max_thick))

\* max(v, 0)
ClampZero(v) == IF RLt(v, Zero) THEN Zero ELSE v

\* C7 (as claimed): every cell added by add_frame_to_z has the same value,
\* the maximum of the grid before framing plus frame_extra_height clamped
\* to >= 0, and is never lower than the tallest relief cell.
C7_FramePlateau ==
    (Computed /\ FrameAsked) =>
        \A r \in 1..NRows(z_framed) : \A c \in 1..NCols(z_framed) :
            ~FromImage(r, c) =>
                /\ z_framed[r][c]
                      = RAdd(np_max(z_scaled), ClampZero(frame_height_mm))
                /\ ~RLt(z_framed[r][c], np_max(z_scaled))

\* the z-component of (v1 - v0) x (v2 - v0) for the face f of the mesh
NormalZ(f) ==
    LET v0 == vertices[f[1] + 1]
        v1 == vertices[f[2] + 1]
        v2 == vertices[f[3] + 1]
    IN  RSub(RMul(RSub(v1[1], v0[1]), RSub(v2[2], v0[2])),
             RMul(RSub(v1[2], v0[2]), RSub(v2[1], v0[1])))

\* the quads of the surface loop: quad q emits the faces 4q+1 .. 4q+4
Quads == 0..((NRows(z) - 1) * (NCols(z) - 1) - 1)

\* C8 (as claimed): with the coordinates jpg_to_stl produces, every front
\* triangle of create_solid_lithophane has a normal with z-component > 0
\* and every back triangle one with z-component < 0.
C8_NormalsFaceOutward ==
    pc = "returned" =>
        \A q \in Quads :
            /\ RLt(Zero, NormalZ(faces[4 * q + 1]))
            /\ RLt(Zero, NormalZ(faces[4 * q + 2]))
            /\ RLt(NormalZ(faces[4 * q + 3]), Zero)
            /\ RLt(NormalZ(faces[4 * q + 4]), Zero)

\* round(v), halves to the even neighbour as Python's round does
Round(v) ==
    LET fl == v[1] \div v[2]
        twice == 2 * (v[1] - fl * v[2])
    IN  IF twice < v[2] THEN fl
        ELSE IF twice > v[2] THEN fl + 1
        ELSE IF fl % 2 = 0 THEN fl ELSE fl + 1

\* C9 (as claimed): for every frame thickness f > 0 and resolution > 0,
\* add_frame_to_z succeeds and returns a grid of (rows + 2k) x (cols + 2k)
\* with k = round(f * resolution) whose central rows x cols block is the
\* input grid.
C9_FrameShape ==
    (/\ ~Rejected
     /\ ImgRows > 0 /\ ImgCols > 0
     /\ FrameAsked) =>
        /\ pc # "raised"
        /\ Computed =>
             LET k == Round(RMul(frame_thick_mm, ToReal(resolution)))
             IN  /\ NRows(z_framed) = NRows(z_scaled) + 2 * k
                 /\ NCols(z_framed) = NCols(z_scaled) + 2 * k
                 /\ \A r \in 1..NRows(z_scaled) : \A c \in 1..NCols(z_scaled) :
                       z_framed[r + k][c + k] = z_scaled[r][c]

\* C10 (as claimed): the front vertex of cell (r, c) is at
\* (c / resolution, r / resolution, height[r][c]) and the back vertex at
\* index + rows*cols has the same (x, y) and z = 0.
C10_VertexPositions ==
    pc = "returned" =>
        LET rows == NRows(z)
            cols == NCols(z)
        IN  \A r \in 0..(rows - 1) : \A c \in 0..(cols - 1) :
                /\ vertices[r * cols + c + 1]
                      = <<Rat(c, resolution), Rat(r, resolution), z[r + 1][c + 1]>>
                /\ vertices[r * cols + c + 1 + rows * cols]
                      = <<Rat(c, resolution), Rat(r, resolution), Zero>>

\* (v1 - v0) x (v2 - v0) for the face f of the mesh
Normal(f) ==
    LET v0 == vertices[f[1] + 1]
        v1 == vertices[f[2] + 1]
        v2 == vertices[f[3] + 1]
        a == <<RSub(v1[1], v0[1]), RSub(v1[2], v0[2]), RSub(v1[3], v0[3])>>
        b == <<RSub(v2[1], v0[1]), RSub(v2[2], v0[2]), RSub(v2[3], v0[3])>>
    IN  <<RSub(RMul(a[2], b[3]), RMul(a[3], b[2])),
          RSub(RMul(a[3], b[1]), RMul(a[1], b[3])),
          RSub(RMul(a[1], b[2]), RMul(a[2], b[1]))>>

\* the positions in faces of the wall triangles: after the 4 faces of each
\* quad come, for each r, the two left and the two right faces, and then,
\* for each c, the two upper (row 0) and the two lower (last row) faces
SurfaceCount == 4 * (NRows(z) - 1) * (NCols(z) - 1)
SideCount == 4 * (NRows(z) - 1)
LeftWall == {SurfaceCount + 4 * r + k : r \in 0..(NRows(z) - 2), k \in 1..2}
RightWall == {SurfaceCount + 4 * r + k : r \in 0..(NRows(z) - 2), k \in 3..4}
UpperWall ==
    {SurfaceCount + SideCount + 4 * c + k : c \in 0..(NCols(z) - 2), k \in 1..2}
LowerWall ==
    {SurfaceCount + SideCount + 4 * c + k : c \in 0..(NCols(z) - 2), k \in 3..4}
Walls == LeftWall \cup RightWall \cup UpperWall \cup LowerWall

\* the component n of a normal points from the coordinate inner of the
\* neighbouring interior line to the coordinate outer of the boundary
PointsOut(n, outer, inner) == RLt(Zero, RMul(n, RSub(outer, inner)))

\* C11 (as claimed): in the mesh of the full pipeline every wall triangle
\* has a non-zero normal that points away from the grid interior: outward
\* in Y on the first-row and last-row walls, outward in X on the
\* first-column and last-column walls.
C11_WallNormalsOutward ==
    pc = "returned" =>
        LET rows == NRows(z)
            cols == NCols(z)
        IN  /\ \A i \in UpperWall :
                  PointsOut(Normal(faces[i])[2], y[1][1], y[2][1])
            /\ \A i \in LowerWall :
                  PointsOut(Normal(faces[i])[2], y[rows][1], y[rows - 1][1])
            /\ \A i \in LeftWall :
                  PointsOut(Normal(faces[i])[1], x[1][1], x[1][2])
            /\ \A i \in RightWall :
                  PointsOut(Normal(faces[i])[1], x[1][cols], x[1][cols - 1])

\* C11 (amended): in the mesh of the full pipeline every wall triangle is
\* degenerate: the grid boundary is the backing border of height 0, so
\* each front vertex of a wall triangle coincides with its back vertex and
\* the normal of the triangle is the zero vector; it points nowhere.
C11_WallsDegenerate ==
    pc = "returned" =>
        LET offset == NRows(z) * NCols(z)
        IN  /\ Walls = (SurfaceCount + 1)..Len(faces)
            /\ \A i \in Walls :
                  /\ Normal(faces[i]) = <<Zero, Zero, Zero>>
                  /\ \A k \in 1..3 :
                        vertices[(faces[i][k] % offset) + 1]
                            = vertices[(faces[i][k] % offset) + offset + 1]

C11_Witness ==
    /\ pc = "returned"
    /\ RLt(Zero, frame_thick_mm)
    /\ NRows(z) >= 5 /\ NCols(z) >= 5
    /\ Cardinality(Walls) = 4 * (NRows(z) - 1) + 4 * (NCols(z) - 1)
    /\ \E r \in 1..NRows(z) : \E c \in 1..NCols(z) : RLt(Zero, z[r][c])

====
